---- MODULE Spec2Model ----
(***************************************************************************)
(* Model of server.js: the land-use HTTP backend.                          *)
(*                                                                         *)
(*  - the landuse table of the Postgres database, its id sequence and the  *)
(*    sessions (one per pooled client) with their open transactions;       *)
(*  - the pg connection pool behind `pool.query`: every call checks a      *)
(*    client out, runs one statement on it and releases it;                *)
(*  - POST /api/upload, statement by statement;                            *)
(*  - GET /api/land_use and GET /api/filter/:type.                         *)
(*                                                                         *)
(* A row group ("insert") stands for the rows one INSERT statement added:  *)
(* [id |-> first id, file |-> uploaded file, at |-> batch start]; Rows     *)
(* expands it to the rows themselves.                                      *)
(***************************************************************************)
EXTENDS Integers, Sequences, FiniteSets, TLC

\* ------------------------------------------------------------------ bounds
PoolMax     == 2    \* size of the connection pool
MaxUploads  == 2    \* upload requests served one after the other
BigLen     == 1001  \* number of features of the multi-batch files

\* ------------------------------------------------------- program constants
BATCH_SIZE   == 500
DefaultLimit == 1000

VARIABLES
    db,     \* [table, nextId, sess]: committed rows, id sequence, sessions
    pool,   \* [conn, idle, pending]: the pg pool
    up,     \* the upload handler: pc, file, exists, i, insertCount, err, res
    hist,   \* what the upload request did so far (statements, snapshots)
    rd      \* the GET handler: pc, route, type, limit, offset, res

vars == <<db, pool, up, hist, rd>>

Clients == 1 .. PoolMax

\* --------------------------------------------------------------- JSON values
Null      == [t |-> "null"]
Undefined == [t |-> "undefined"]
Str(s)    == [t |-> "string", s |-> s]
Geo(k)    == [t |-> "object", g |-> k]
Props(ty) == [t |-> "object", type |-> ty]
NoType    == [t |-> "object"]
Feature(g, p) == [geometry |-> g, properties |-> p]

\* JavaScript truthiness of a JSON value
Truthy(v) ==
    /\ v.t \notin {"null", "undefined"}
    /\ ~(v.t = "string" /\ v.s = <<>>)

\* category labels, as character sequences
Ab == <<"A", "b">>
ab == <<"a", "b">>
AB == <<"A", "B">>
Cc == <<"c">>

\* ------------------------------------------------------------ uploaded files
NoFile == "nofile"
ValidFiles == {"three", "falsy", "big"}
Files == {"badjson", "notfc", "noarr"} \cup ValidFiles
SeedFiles == ValidFiles \cup {"huge"}

Features(f) ==
    CASE f = "three" ->
           << Feature(Geo(1), Props(Str(Ab))),
              Feature(Geo(2), NoType),
              Feature(Geo(3), Props(Str(Cc))) >>
      [] f = "falsy" ->
           << Feature(Geo(1), Props(Str(<<>>))),
              Feature(Null, Props(Str(ab))),
              Feature(Geo(3), Null),
              Feature(Geo(4), Props(Str(AB))) >>
      [] f = "big" ->
           [k \in 1 .. BigLen |->
              IF k = 2 THEN Feature(Geo(k), Props(Null))
              ELSE IF k > BATCH_SIZE /\ k <= 2 * BATCH_SIZE
                   THEN Feature(Null, Props(Str(Cc)))
                   ELSE Feature(Geo(k), Props(Str(ab)))]
      [] f = "huge" ->
           [k \in 1 .. BigLen |->
              Feature(Geo(k), Props(Str(IF k % 3 = 0 THEN AB
                                        ELSE IF k % 3 = 1 THEN ab ELSE Cc)))]
      [] OTHER -> << >>

\* JSON.parse(fs.readFileSync(uploadedPath))
Parse(f) ==
    CASE f = "badjson" -> [ok |-> FALSE]
      [] f = "notfc"   -> [ok |-> TRUE, type |-> "Feature", isArray |-> TRUE]
      [] f = "noarr"   -> [ok |-> TRUE, type |-> "FeatureCollection", isArray |-> FALSE]
      [] OTHER         -> [ok |-> TRUE, type |-> "FeatureCollection", isArray |-> TRUE]

\* variant: the features field is not looked at
Valid_TypeOnly(data) == data.type = "FeatureCollection"

\* if (data.type !== 'FeatureCollection' || !Array.isArray(data.features))
Valid(data) == data.type = "FeatureCollection" /\ data.isArray

\* ----------------------------------------------- the batch loop's row filter
\* variant: the end index taken as inclusive of one less
slice_Short(feats, i, j) ==
    SubSeq(feats, i + 1, (IF j < Len(feats) THEN j ELSE Len(feats)) - 1)

\* batch = data.features.slice(i, j)
slice(feats, i, j) ==
    SubSeq(feats, i + 1, IF j < Len(feats) THEN j ELSE Len(feats))

JSONstringify(v) == Str(<<"json", v.g>>)

\* f.geometry ? JSON.stringify(f.geometry) : null
geomJSON(f) == IF Truthy(f.geometry) THEN JSONstringify(f.geometry) ELSE Null

\* f.properties?.type
PropType(f) ==
    IF f.properties.t # "object" THEN Undefined
    ELSE IF "type" \in DOMAIN f.properties THEN f.properties.type
    ELSE Undefined

\* f.properties?.type || null
typeVal(f) == IF Truthy(PropType(f)) THEN PropType(f) ELSE Null

\* if (geomJSON && typeVal)
Insertable(f) == Truthy(geomJSON(f)) /\ Truthy(typeVal(f))

\* the features of a batch that reach params/values
Params(batch) == SelectSeq(batch, Insertable)

\* ST_SetSRID(ST_GeomFromGeoJSON($n), 4326)
ST_GeomFromGeoJSON(j) == [srid |-> 0, g |-> j.s[2]]
ST_SetSRID(geom, srid) == [geom EXCEPT !.srid = srid]

\* ------------------------------------------------------------ the database
NoSess == [txn |-> FALSE, del |-> {}, ins |-> << >>]

Group(id, f, at) == [id |-> id, file |-> f, at |-> at]

\* the rows INSERT INTO landuse (geom, type) VALUES ... added for one batch,
\* ids drawn from the serial column's sequence
Rows(grp) ==
    LET vals == Params(slice(Features(grp.file), grp.at, grp.at + BATCH_SIZE))
    IN  [k \in 1 .. Len(vals) |->
           [id   |-> grp.id + k - 1,
            geom |-> ST_SetSRID(ST_GeomFromGeoJSON(geomJSON(vals[k])), 4326),
            type |-> typeVal(vals[k]).s]]

NRows(grp) ==
    Len(Params(slice(Features(grp.file), grp.at, grp.at + BATCH_SIZE)))

RECURSIVE TableRows(_)
TableRows(groups) ==
    IF groups = << >> THEN << >>
    ELSE Rows(Head(groups)) \o TableRows(Tail(groups))

\* two id-ordered sequences of row groups, merged in id order
RECURSIVE Merge(_, _)
Merge(a, b) ==
    IF a = << >> THEN b
    ELSE IF b = << >> THEN a
    ELSE IF Head(a).id < Head(b).id
         THEN <<Head(a)>> \o Merge(Tail(a), b)
         ELSE <<Head(b)>> \o Merge(a, Tail(b))

Without(groups, del) == SelectSeq(groups, LAMBDA g : g \notin del)

\* what a statement run on client c sees (READ COMMITTED): the committed
\* rows, less the ones its own transaction deleted, plus the ones it inserted
Visible(d, c) ==
    IF d.sess[c].txn
    THEN Merge(Without(d.table, d.sess[c].del), d.sess[c].ins)
    ELSE d.table

\* rows a DELETE on c would delete that another open transaction has
\* deleted and not yet committed: the DELETE waits for that transaction
Blocked(d, c) ==
    \E o \in Clients \ {c} : \E g \in d.sess[o].del :
        /\ g \notin d.sess[c].del
        /\ \E k \in 1 .. Len(d.table) : d.table[k] = g

\* BEGIN
Begin(d, c) == [d EXCEPT !.sess[c].txn = TRUE]

\* variant: the statement deletes nothing
Delete_Nothing(d, c) == d

\* DELETE FROM landuse
Delete(d, c) ==
    IF d.sess[c].txn
    THEN [d EXCEPT !.sess[c].del = @ \cup {d.table[k] : k \in 1 .. Len(d.table)},
                   !.sess[c].ins = << >>]
    ELSE [d EXCEPT !.table = << >>]

\* INSERT INTO landuse (geom, type) VALUES ... for the batch at index `at`
Insert(d, c, f, at) ==
    LET grp == Group(d.nextId, f, at)
        d1  == [d EXCEPT !.nextId = @ + NRows(grp)]
    IN  IF d.sess[c].txn
        THEN [d1 EXCEPT !.sess[c].ins = Append(@, grp)]
        ELSE [d1 EXCEPT !.table = Append(@, grp)]

\* COMMIT
Commit(d, c) ==
    IF d.sess[c].txn
    THEN [d EXCEPT !.table = Merge(Without(@, d.sess[c].del), d.sess[c].ins),
                   !.sess[c] = NoSess]
    ELSE d

\* ROLLBACK, and the server ending a session whose connection closed
Rollback(d, c) == [d EXCEPT !.sess[c] = NoSess]

\* ------------------------------------------------------------ the pg pool
\* Holders of a checked-out client: "upload" (POST /api/upload), "read" (a
\* GET query of some other request), "get" (the GET request under study).
Min(S) == CHOOSE x \in S : \A y \in S : x <= y

Closed(p) == {c \in Clients : p.conn[c] = "closed"}

\* pool.query, first half: pool.connect().  The most recently released idle
\* client is reused; with none idle a new client is opened unless the pool
\* is full, and then the request waits in the pending queue.
Connect(p, who) ==
    IF p.idle # << >>
    THEN [p EXCEPT !.conn[p.idle[Len(p.idle)]] = who,
                   !.idle = SubSeq(@, 1, Len(@) - 1)]
    ELSE IF Closed(p) = {}
         THEN [p EXCEPT !.pending = Append(@, who)]
         ELSE [p EXCEPT !.conn[Min(Closed(p))] = who]

\* pool.query, second half on success: client.release(), which hands the
\* client to the first waiting request or parks it as idle
Release(p, c) ==
    IF p.pending # << >>
    THEN [p EXCEPT !.conn[c] = Head(p.pending), !.pending = Tail(@)]
    ELSE [p EXCEPT !.conn[c] = "idle", !.idle = Append(@, c)]

\* client.release(err) and the idle timeout: the client is closed and
\* dropped; a waiting request gets a new client in its place
Remove(p, c) ==
    LET p1 == [p EXCEPT !.conn[c] = "closed",
                        !.idle = SelectSeq(@, LAMBDA x : x # c)]
    IN  IF p1.pending # << >>
        THEN [p1 EXCEPT !.conn[c] = Head(p1.pending), !.pending = Tail(@)]
        ELSE p1

Count(p, who) ==
    Cardinality({c \in Clients : p.conn[c] = who})
    + Len(SelectSeq(p.pending, LAMBDA w : w = who))

\* ------------------------------------------------------- POST /api/upload
NoRes == [status |-> 0, body |-> << >>]

\* for (i = ...; i < data.features.length; i += BATCH_SIZE): the index of the
\* next batch with params.length > 0, or -1 when the loop ends
RECURSIVE NextInsert(_, _)
NextInsert(feats, i) ==
    IF i >= Len(feats) THEN -1
    ELSE IF Len(Params(slice(feats, i, i + BATCH_SIZE))) > 0 THEN i
    ELSE NextInsert(feats, i + BATCH_SIZE)

\* variant: insertCount += params.length / 2, the rows of the batch
Counted_Rows(batch) == Len(Params(batch))

\* insertCount += batch.length
Counted(batch) == Len(batch)

\* variant: the fallback text whatever the error
ErrorBody_Generic(e) == <<"error", "Failed to upload and save GeoJSON">>

\* e.message || 'Failed to upload and save GeoJSON'
ErrorBody(e) ==
    IF e = << >> THEN <<"error", "Failed to upload and save GeoJSON">>
    ELSE <<"error">> \o e

\* variant: no unlink
Finally_Keep(exists) == exists

\* finally { if (fs.existsSync(uploadedPath)) fs.unlinkSync(uploadedPath) }
Finally(exists) == IF exists THEN FALSE ELSE exists

\* the handler calls pool.query(q)
Issue(q, u, d, p) ==
    /\ up' = [u EXCEPT !.pc = q]
    /\ hist' = [hist EXCEPT !.log = Append(@, [q |-> q, at |-> u.i])]
    /\ db' = d
    /\ pool' = Connect(p, "upload")

\* catch (e) { await pool.query('ROLLBACK') ...
Catch(e, u, d, p) == Issue("ROLLBACK", [u EXCEPT !.err = e], d, p)

\* res.json / res.status(..).json, then the finally block
Respond(r, u, d, p) ==
    /\ up' = [u EXCEPT !.pc = "done", !.res = r, !.exists = Finally(u.exists)]
    /\ db' = d
    /\ pool' = p

\* the batch loop from index i on: the next INSERT, or COMMIT after the loop
Loop(i, u, d, p) ==
    LET j == NextInsert(Features(u.file), i)
    IN  IF j = -1 THEN Issue("COMMIT", u, d, p)
        ELSE Issue("INSERT", [u EXCEPT !.i = j], d, p)

\* lines 128-140: the request up to its first pool.query
Request(f) ==
    /\ rd' = rd
    /\ LET u == [pc |-> "start", file |-> f, exists |-> f # NoFile, i |-> 0,
                 insertCount |-> 0, err |-> << >>, res |-> NoRes]
           h == [n    |-> hist.n + 1,
                 pre  |-> db.table,
                 open |-> {c \in Clients : db.sess[c].txn},
                 log  |-> << >>,
                 swallowed |-> FALSE,
                 prev |-> IF up.pc = "done"
                          THEN [file |-> up.file, status |-> up.res.status,
                                table |-> db.table]
                          ELSE hist.prev]
       IN  IF f = NoFile
           THEN /\ up' = [u EXCEPT !.pc = "done",
                            !.res = [status |-> 400,
                                     body |-> <<"error", "No file uploaded">>]]
                /\ hist' = h
                /\ UNCHANGED <<db, pool>>
           ELSE /\ up' = [u EXCEPT
                            !.pc = IF Parse(f).ok /\ Valid(Parse(f))
                                   THEN "BEGIN" ELSE "ROLLBACK",
                            !.err = IF ~Parse(f).ok THEN <<"Unexpected token">>
                                    ELSE IF ~Valid(Parse(f))
                                         THEN <<"Invalid GeoJSON format">>
                                         ELSE << >>]
                /\ hist' = [h EXCEPT !.log = <<[q |-> up'.pc, at |-> 0]>>]
                /\ db' = db
                /\ pool' = Connect(pool, "upload")

\* the first upload request of a behaviour
UploadRequest(f) == up.pc = "idle" /\ Request(f)

\* a further upload request, once the one before has been answered
UploadAgain(f) == up.pc = "done" /\ hist.n < MaxUploads /\ Request(f)

UploadBegin(c) ==
    /\ up.pc = "BEGIN" /\ pool.conn[c] = "upload"
    /\ rd' = rd
    /\ Issue("DELETE", up, Begin(db, c), Release(pool, c))

UploadDelete(c) ==
    /\ up.pc = "DELETE" /\ pool.conn[c] = "upload"
    /\ ~Blocked(db, c)
    /\ rd' = rd
    /\ Loop(0, up, Delete(db, c), Release(pool, c))

UploadInsert(c) ==
    /\ up.pc = "INSERT" /\ pool.conn[c] = "upload"
    /\ rd' = rd
    /\ LET batch == slice(Features(up.file), up.i, up.i + BATCH_SIZE)
       IN  Loop(up.i + BATCH_SIZE,
                [up EXCEPT !.insertCount = @ + Counted(batch)],
                Insert(db, c, up.file, up.i), Release(pool, c))

UploadCommit(c) ==
    /\ up.pc = "COMMIT" /\ pool.conn[c] = "upload"
    /\ rd' = rd
    /\ hist' = hist
    /\ Respond([status |-> 200, body |-> <<"Inserted", up.insertCount>>],
               up, Commit(db, c), Release(pool, c))

UploadRollback(c) ==
    /\ up.pc = "ROLLBACK" /\ pool.conn[c] = "upload"
    /\ rd' = rd
    /\ hist' = hist
    /\ Respond([status |-> 500, body |-> ErrorBody(up.err)],
               up, Rollback(db, c), Release(pool, c))

\* a statement of the try block is rejected: the pool drops the client, the
\* server ends its session, and the handler lands in the catch block
UploadStatementFails(c) ==
    /\ up.pc \in {"BEGIN", "DELETE", "INSERT", "COMMIT"} /\ pool.conn[c] = "upload"
    /\ rd' = rd
    /\ Catch(<<"pg", up.pc>>, up, Rollback(db, c), Remove(pool, c))

\* the ROLLBACK is rejected: .catch(() => {}) swallows it
UploadRollbackFails(c) ==
    /\ up.pc = "ROLLBACK" /\ pool.conn[c] = "upload"
    /\ rd' = rd
    /\ hist' = [hist EXCEPT !.swallowed = TRUE]
    /\ Respond([status |-> 500, body |-> ErrorBody(up.err)],
               up, Rollback(db, c), Remove(pool, c))

\* ------------------------------------------ other requests' GET queries
ReadIssue ==
    /\ Count(pool, "read") < PoolMax
    /\ pool' = Connect(pool, "read")
    /\ UNCHANGED <<db, up, hist, rd>>

ReadDone(c) ==
    /\ pool.conn[c] = "read"
    /\ pool' = Release(pool, c)
    /\ UNCHANGED <<db, up, hist, rd>>

ReadFails(c) ==
    /\ pool.conn[c] = "read"
    /\ pool' = Remove(pool, c)
    /\ db' = Rollback(db, c)
    /\ UNCHANGED <<up, hist, rd>>

\* idleTimeoutMillis: an idle client is closed
IdleTimeout(c) ==
    /\ pool.conn[c] = "idle"
    /\ pool' = Remove(pool, c)
    /\ db' = Rollback(db, c)
    /\ UNCHANGED <<up, hist, rd>>

\* ------------------------------- GET /api/land_use and GET /api/filter/:type
NaN == [nan |-> TRUE, v |-> 0]
Num(n) == [nan |-> FALSE, v |-> n]

DigitChars == {"0", "1", "2", "3", "4", "5", "6", "7", "8", "9"}
DigitVal(ch) ==
    CASE ch = "0" -> 0 [] ch = "1" -> 1 [] ch = "2" -> 2 [] ch = "3" -> 3
      [] ch = "4" -> 4 [] ch = "5" -> 5 [] ch = "6" -> 6 [] ch = "7" -> 7
      [] ch = "8" -> 8 [] ch = "9" -> 9

\* the value of the longest run of digits of s from position k on
RECURSIVE DigitRun(_, _, _)
DigitRun(s, k, acc) ==
    IF k > Len(s) \/ s[k] \notin DigitChars THEN acc
    ELSE DigitRun(s, k + 1, acc * 10 + DigitVal(s[k]))

\* parseInt(x, 10): undefined gives NaN; a string gives its leading
\* optionally signed digits, NaN when it has none
parseInt(x) ==
    IF x.t # "string" THEN NaN
    ELSE LET s    == x.s
             sign == Len(s) > 0 /\ s[1] \in {"-", "+"}
             from == IF sign THEN 2 ELSE 1
         IN  IF from > Len(s) \/ s[from] \notin DigitChars THEN NaN
             ELSE IF sign /\ s[1] = "-" THEN Num(0 - DigitRun(s, from, 0))
             ELSE Num(DigitRun(s, from, 0))

\* parseInt(...) || dflt
OrDefault(n, dflt) == IF n.nan \/ n.v = 0 THEN dflt ELSE n.v

\* LOWER(text)
LowerChar(ch) ==
    CASE ch = "A" -> "a" [] ch = "B" -> "b" [] ch = "C" -> "c" [] OTHER -> ch
LOWER(s) == [k \in 1 .. Len(s) |-> LowerChar(s[k])]

\* ST_AsGeoJSON(t.*)::jsonb
ST_AsGeoJSON(row) ==
    [type |-> "Feature", geometry |-> row.geom.g,
     properties |-> [id |-> row.id, type |-> row.type]]

\* ORDER BY id: the row groups in ascending order of their ids
OrderById(groups) ==
    LET before(g) == Cardinality({k \in 1 .. Len(groups) : groups[k].id < g.id})
    IN  [n \in 1 .. Len(groups) |->
           CHOOSE g \in {groups[k] : k \in 1 .. Len(groups)} : before(g) = n - 1]

\* variant: the two parameters bound the other way round
OffsetLimit_Swapped(rows, offset, limit) ==
    SubSeq(rows, limit + 1,
           IF limit + offset < Len(rows) THEN limit + offset ELSE Len(rows))

\* OFFSET $1 LIMIT $2
OffsetLimit(rows, offset, limit) ==
    SubSeq(rows, offset + 1,
           IF offset + limit < Len(rows) THEN offset + limit ELSE Len(rows))

\* jsonb_build_object('type', ..., 'features', COALESCE(jsonb_agg(...), '[]'))
Geojson(page) == [k \in 1 .. Len(page) |-> ST_AsGeoJSON(page[k])]

\* variant: WHERE type = $1
WhereType_Exact(rows, type) == SelectSeq(rows, LAMBDA r : r.type = type)

\* WHERE LOWER(type) = LOWER($1)
WhereType(rows, type) ==
    SelectSeq(rows, LAMBDA r : LOWER(r.type) = LOWER(type))

\* the rows the handler's SELECT ranges over
Selected(rows, q) ==
    IF q.route = "filter" THEN WhereType(rows, q.type) ELSE rows

\* the response of the handler to the query's result
Answer(q, features) ==
    IF q.route = "filter" /\ Len(features) = 0
    THEN [status |-> 404, error |-> <<"No features found with type", q.type>>,
          features |-> << >>]
    ELSE [status |-> 200, error |-> << >>, features |-> features]

DbError(q) ==
    [status |-> 500,
     error |-> IF q.route = "filter" THEN <<"Database error filtering land use">>
               ELSE <<"Database error fetching land use">>,
     features |-> << >>]

NoAnswer == [status |-> 0, error |-> << >>, features |-> << >>]

RawLimits  == {Undefined, Str(<<"0">>), Str(<<"2">>), Str(<<"1", "0">>),
               Str(<<"a", "b">>), Str(<<"-", "1">>)}
RawOffsets == {Undefined, Str(<<"0">>), Str(<<"1">>), Str(<<"-", "1">>)}
Types      == {Ab, AB, Cc, <<"z">>}

GetRequest(route, type, lraw, oraw) ==
    /\ rd.pc \in {"idle", "done"}
    /\ rd' = [pc |-> "query", route |-> route, type |-> type,
              raw |-> [limit |-> lraw, offset |-> oraw],
              limit |-> OrDefault(parseInt(lraw), DefaultLimit),
              offset |-> OrDefault(parseInt(oraw), 0),
              seen |-> << >>, res |-> NoAnswer]
    /\ pool' = Connect(pool, "get")
    /\ UNCHANGED <<db, up, hist>>

GetLandUse(lraw, oraw) == GetRequest("land_use", << >>, lraw, oraw)

GetFilter(type, lraw, oraw) == GetRequest("filter", type, lraw, oraw)

\* the SELECT runs; a negative OFFSET or LIMIT is an error of the statement
GetQuery(c) ==
    /\ rd.pc = "query" /\ pool.conn[c] = "get"
    /\ UNCHANGED <<up, hist>>
    /\ IF rd.offset < 0 \/ rd.limit < 0
       THEN /\ rd' = [rd EXCEPT !.pc = "done", !.res = DbError(rd)]
            /\ pool' = Remove(pool, c)
            /\ db' = Rollback(db, c)
       ELSE /\ rd' = [rd EXCEPT
                        !.pc = "done",
                        !.seen = Visible(db, c),
                        !.res = Answer(rd, Geojson(OffsetLimit(
                                    Selected(TableRows(OrderById(Visible(db, c))), rd),
                                    rd.offset, rd.limit)))]
            /\ pool' = Release(pool, c)
            /\ db' = db

GetFails(c) ==
    /\ rd.pc = "query" /\ pool.conn[c] = "get"
    /\ rd' = [rd EXCEPT !.pc = "done", !.res = DbError(rd)]
    /\ pool' = Remove(pool, c)
    /\ db' = Rollback(db, c)
    /\ UNCHANGED <<up, hist>>

\* ------------------------------------------------------- specifications
\* the table a completed upload of file f leaves in an empty database
RECURSIVE Seed(_, _, _)
Seed(f, i, id) ==
    LET j == NextInsert(Features(f), i)
    IN  IF j = -1 THEN << >>
        ELSE <<Group(id, f, j)>>
             \o Seed(f, j + BATCH_SIZE, id + NRows(Group(id, f, j)))

RECURSIVE SumRows(_)
SumRows(groups) ==
    IF groups = << >> THEN 0 ELSE NRows(Head(groups)) + SumRows(Tail(groups))

InitWith(tables) ==
    /\ \E t \in tables :
         db = [table |-> t, nextId |-> 1 + SumRows(t),
               sess |-> [c \in Clients |-> NoSess]]
    /\ pool = [conn |-> [c \in Clients |-> "closed"], idle |-> << >>,
               pending |-> << >>]
    /\ up = [pc |-> "idle", file |-> NoFile, exists |-> FALSE, i |-> 0,
             insertCount |-> 0, err |-> << >>, res |-> NoRes]
    /\ hist = [n |-> 0, pre |-> << >>, open |-> {}, log |-> << >>,
               swallowed |-> FALSE,
               prev |-> [file |-> NoFile, status |-> 0, table |-> << >>]]
    /\ rd = [pc |-> "idle", route |-> "land_use", type |-> << >>,
             raw |-> [limit |-> Undefined, offset |-> Undefined],
             limit |-> DefaultLimit, offset |-> 0,
             seen |-> << >>, res |-> NoAnswer]

Init == InitWith({<< >>, Seed("three", 0, 1)})

Upload ==
    \/ \E f \in Files \cup {NoFile} : UploadRequest(f)
    \/ \E c \in Clients : UploadBegin(c)
    \/ \E c \in Clients : UploadDelete(c)
    \/ \E c \in Clients : UploadInsert(c)
    \/ \E c \in Clients : UploadCommit(c)
    \/ \E c \in Clients : UploadRollback(c)
    \/ \E c \in Clients : UploadStatementFails(c)
    \/ \E c \in Clients : UploadRollbackFails(c)

\* one upload under load: other requests' queries share the pool
Next ==
    \/ Upload
    \/ ReadIssue
    \/ \E c \in Clients : ReadDone(c)
    \/ \E c \in Clients : ReadFails(c)
    \/ \E c \in Clients : IdleTimeout(c)

Spec == Init /\ [][Next]_vars

\* uploads one after the other, nothing else using the pool
NextSeq ==
    \/ Upload
    \/ \E f \in Files \cup {NoFile} : UploadAgain(f)
    \/ \E c \in Clients : IdleTimeout(c)

InitSeq == InitWith({<< >>, Seed("three", 0, 1), Seed("big", 0, 1)})

SeqSpec == InitSeq /\ [][NextSeq]_vars

\* GET requests against the table an upload left
InitRead == InitWith({<< >>} \cup {Seed(f, 0, 1) : f \in SeedFiles})

NextRead ==
    \/ \E l \in RawLimits, o \in RawOffsets : GetLandUse(l, o)
    \/ \E t \in Types, l \in RawLimits, o \in RawOffsets : GetFilter(t, l, o)
    \/ \E c \in Clients : GetQuery(c)
    \/ \E c \in Clients : GetFails(c)
    \/ \E c \in Clients : IdleTimeout(c)

ReadSpec == InitRead /\ [][NextRead]_vars

\* =================================================================== claims
\* the (geometry, category) rows of a table, identifiers left out
Content(groups) ==
    LET rows == TableRows(groups)
    IN  [k \in 1 .. Len(rows) |-> [geom |-> rows[k].geom, type |-> rows[k].type]]

\* the statements of kind q the upload request has issued so far
Issued(q) == SelectSeq(hist.log, LAMBDA e : e.q = q)

Answered(status) == up.pc = "done" /\ up.res.status = status

\* the batch start indices of the uploaded file
BatchStarts(f) ==
    LET n == Len(Features(f))
    IN  {i \in 0 .. n : i % BATCH_SIZE = 0 /\ i < n}

\* --------------------------------------------------------------------- C1
\* C1: at every point of an upload, whatever other queries are interleaved, a
\* reader's query sees the landuse table either exactly as it was before the
\* upload or exactly as the upload's full replacement set; never emptied,
\* never holding only some batches.
C1_ReaderSeesPreOrFull ==
    (up.pc # "idle" /\ up.file # NoFile) =>
        \A c \in Clients :
            pool.conn[c] = "read" =>
                \/ Content(Visible(db, c)) = Content(hist.pre)
                \/ /\ up.file \in ValidFiles
                   /\ Content(Visible(db, c)) = Content(Seed(up.file, 0, 1))

\* --------------------------------------------------------------------- C2
\* C2: when a statement fails after DELETE FROM landuse has executed and
\* before COMMIT has, the table holds exactly its pre-upload rows once the
\* handler has finished.
C2_FailureKeepsPreUpload ==
    ( /\ Answered(500)
      /\ Len(Issued("INSERT")) + Len(Issued("COMMIT")) > 0 )
        => db.table = hist.pre

\* --------------------------------------------------------------------- C3
\* C3: whenever the upload handler has finished a request that carried a
\* file, on whichever path (commit, parse failure, validation failure,
\* database failure, rollback failure), the temporary file no longer exists.
C3_FileDeleted ==
    (up.pc = "done" /\ up.file # NoFile) => ~up.exists

\* the handler finished on the rollback-failure path, the file gone
C3_Witness ==
    /\ up.pc = "done" /\ up.file \in Files
    /\ hist.swallowed
    /\ ~up.exists

\* --------------------------------------------------------------------- C4
\* C4: a successful upload of the file the previous successful upload
\* carried leaves the table with the same (geometry, category) rows, and so
\* the same number of rows, as the previous upload left.
C4_SecondUploadSameState ==
    ( /\ Answered(200)
      /\ hist.prev.status = 200
      /\ hist.prev.file = up.file )
        => /\ Content(db.table) = Content(hist.prev.table)
           /\ SumRows(db.table) = SumRows(hist.prev.table)

\* the same multi-batch file uploaded twice with success
C4_Witness ==
    /\ Answered(200)
    /\ hist.prev.status = 200
    /\ hist.prev.file = up.file
    /\ up.file = "big"
    /\ SumRows(db.table) > 0

\* --------------------------------------------------------------------- C5
\* the row a feature yields
RowOf(x) ==
    [geom |-> [srid |-> 4326, g |-> x.geometry.g], type |-> x.properties.type.s]

RowsOf(feats) == [k \in 1 .. Len(feats) |-> RowOf(feats[k])]

HasTypeField(x) ==
    x.properties.t = "object" /\ "type" \in DOMAIN x.properties

\* a non-null geometry and a non-null category label
NonNullBoth(x) ==
    /\ x.geometry.t # "null"
    /\ HasTypeField(x) /\ x.properties.type.t # "null"

\* a non-null geometry and a non-null, non-empty category label
NonEmptyBoth(x) ==
    /\ x.geometry.t # "null"
    /\ HasTypeField(x) /\ x.properties.type.t # "null"
    /\ x.properties.type.s # << >>

\* C5 as stated: after a successful upload the table holds, in input order,
\* one row for every feature with a non-null geometry and a non-null
\* properties.type, and nothing else.
C5_NonNullFeaturesInserted ==
    Answered(200) =>
        Content(db.table) = RowsOf(SelectSeq(Features(up.file), NonNullBoth))

\* C5 as amended: after a successful upload the table holds, in input
\* order, one row for every feature whose geometry is non-null and whose
\* properties.type is non-null and not the empty string, and nothing else;
\* the three-feature file with one properties.type missing leaves two rows,
\* which GET /api/land_use?limit=10 returns.
C5_NonEmptyFeaturesInserted ==
    Answered(200) =>
        /\ Content(db.table) = RowsOf(SelectSeq(Features(up.file), NonEmptyBoth))
        /\ up.file = "three" =>
              LET got == Geojson(OffsetLimit(
                             TableRows(OrderById(db.table)),
                             OrDefault(parseInt(Undefined), 0),
                             OrDefault(parseInt(Str(<<"1", "0">>)), DefaultLimit)))
              IN  /\ Len(got) = 2
                  /\ got[1].geometry = 1 /\ got[1].properties.type = Ab
                  /\ got[2].geometry = 3 /\ got[2].properties.type = Cc

\* a successful upload of the file holding a feature with an empty label, a
\* feature with a null geometry and a feature with null properties
C5_Witness ==
    /\ Answered(200)
    /\ up.file = "falsy"
    /\ SumRows(db.table) = 1

\* --------------------------------------------------------------------- C6
\* C6: an upload whose parsed content is not a FeatureCollection with an
\* array of features fails; it issues no BEGIN, DELETE or INSERT (only the
\* ROLLBACK of its catch block), leaves the table as it was and opens no
\* transaction on any pooled client.
C6_InvalidFileNoTransaction ==
    (up.pc # "idle" /\ up.file \in {"notfc", "noarr"}) =>
        /\ \A k \in 1 .. Len(hist.log) : hist.log[k].q = "ROLLBACK"
        /\ db.table = hist.pre
        /\ {c \in Clients : db.sess[c].txn} \subseteq hist.open
        /\ up.pc = "done" => up.res.status = 500

\* the upload of a FeatureCollection whose features are no array, answered
C6_Witness ==
    /\ Answered(500)
    /\ up.file = "noarr"
    /\ up.err = <<"Invalid GeoJSON format">>

\* --------------------------------------------------------------------- C7
IsStr(raw, chars) == raw.t = "string" /\ raw.s = chars

\* the limit a request names: its number, 1000 when absent or non-numeric
NamedLimit(raw) ==
    CASE IsStr(raw, <<"0">>)      -> 0
      [] IsStr(raw, <<"2">>)      -> 2
      [] IsStr(raw, <<"1", "0">>) -> 10
      [] IsStr(raw, <<"-", "1">>) -> 0 - 1
      [] OTHER                    -> 1000

\* the offset a request names: its number, 0 when absent
NamedOffset(raw) ==
    CASE IsStr(raw, <<"1">>)      -> 1
      [] IsStr(raw, <<"-", "1">>) -> 0 - 1
      [] OTHER                    -> 0

\* the limit in force: a named limit of 0 counts as none given
LimitInForce(raw) == IF NamedLimit(raw) = 0 THEN 1000 ELSE NamedLimit(raw)

\* the rows left after skipping off rows and taking at most lim
PageOf(rows, off, lim) ==
    LET left == IF Len(rows) > off THEN Len(rows) - off ELSE 0
        n    == IF lim < left THEN lim ELSE left
    IN  [k \in 1 .. n |-> rows[off + k]]

Ascending(features) ==
    \A k \in 1 .. Len(features) - 1 :
        features[k].properties.id < features[k + 1].properties.id

\* C7 as stated: the answer of GET /api/land_use holds at most `limit`
\* features (limit = 0 included), the rows in ascending id order with the
\* first `offset` skipped; 1000 and 0 stand in for omitted parameters.
C7_AtMostLimit ==
    (rd.pc = "done" /\ rd.route = "land_use" /\ rd.res.status = 200) =>
        /\ Len(rd.res.features) <= NamedLimit(rd.raw.limit)
        /\ rd.res.features =
             Geojson(PageOf(TableRows(rd.seen), NamedOffset(rd.raw.offset),
                            NamedLimit(rd.raw.limit)))

\* C7 as amended: with L the named limit, or 1000 when the limit is absent,
\* non-numeric or 0, and O the named offset, or 0 when absent, a negative L
\* or O is answered 500 without features; otherwise a 200 answer holds at
\* most L features, the rows in ascending id order with the first O skipped.
C7_AtMostLimitInForce ==
    (rd.pc = "done" /\ rd.route = "land_use") =>
        LET L == LimitInForce(rd.raw.limit)
            O == NamedOffset(rd.raw.offset)
        IN  /\ rd.res.status \in {200, 500}
            /\ (L < 0 \/ O < 0) => rd.res.status = 500
            /\ rd.res.status = 500 => rd.res.features = << >>
            /\ rd.res.status = 200 =>
                  /\ Len(rd.res.features) <= L
                  /\ Ascending(rd.res.features)
                  /\ rd.res.features = Geojson(PageOf(TableRows(rd.seen), O, L))

\* limit=0 against a table of more than 1000 rows: 1000 features come back
C7_Witness ==
    /\ rd.pc = "done" /\ rd.route = "land_use"
    /\ IsStr(rd.raw.limit, <<"0">>)
    /\ rd.res.status = 200
    /\ Len(rd.res.features) = 1000
    /\ SumRows(rd.seen) > 1000

\* --------------------------------------------------------------------- C8
\* two labels that differ at most in the case of their letters
SameLetters(a, b) ==
    /\ Len(a) = Len(b)
    /\ \A k \in 1 .. Len(a) :
          \/ a[k] = b[k]
          \/ {a[k], b[k]} \in {{"A", "a"}, {"B", "b"}, {"C", "c"}}

InsertableCount(f, i) ==
    LET feats == Features(f)
    IN  Cardinality({k \in 1 .. Len(feats) :
                        /\ k > i /\ k <= i + BATCH_SIZE
                        /\ NonEmptyBoth(feats[k])})

BatchLength(f, i) ==
    IF i + BATCH_SIZE <= Len(Features(f)) THEN BATCH_SIZE ELSE Len(Features(f)) - i

RECURSIVE SumOver(_, _, _)
SumOver(Op(_, _), f, entries) ==
    IF entries = << >> THEN 0
    ELSE Op(f, Head(entries).at) + SumOver(Op, f, Tail(entries))

\* C9: the count in the success message is the sum of the lengths of the
\* batches an INSERT was issued for; an INSERT is issued for a batch exactly
\* when the batch has an insertable feature; and the count is never below
\* the number of rows inserted.
C9_CountIsBatchSizes ==
    Answered(200) =>
        LET ins == Issued("INSERT")
        IN  /\ up.res.body = <<"Inserted", SumOver(BatchLength, up.file, ins)>>
            /\ \A i \in BatchStarts(up.file) :
                   Cardinality({k \in 1 .. Len(ins) : ins[k].at = i})
                     = IF InsertableCount(up.file, i) > 0 THEN 1 ELSE 0
            /\ \A k \in 1 .. Len(ins) : ins[k].at \in BatchStarts(up.file)
            /\ SumOver(BatchLength, up.file, ins)
                 >= SumOver(InsertableCount, up.file, ins)

\* a success whose count exceeds the rows inserted, one batch skipped
C9_Witness ==
    /\ Answered(200)
    /\ up.file = "big"
    /\ Len(Issued("INSERT")) = 2
    /\ up.insertCount > SumOver(InsertableCount, up.file, Issued("INSERT"))

\* -------------------------------------------------------------------- C10
\* C10: an error raised by BEGIN, DELETE, an INSERT or COMMIT is followed by
\* one ROLLBACK, the last statement of the request, and by a 500 carrying
\* that error's message, also when the ROLLBACK fails; COMMIT is issued only
\* after BEGIN, DELETE and an INSERT for every batch with insertable rows,
\* none of which failed.
C10_ErrorHandling ==
    LET n == Len(hist.log)
    IN  /\ Len(Issued("ROLLBACK")) <= 1
        /\ (up.pc # "idle" /\ up.err # << >>) =>
              /\ Len(Issued("ROLLBACK")) = 1
              /\ hist.log[n].q = "ROLLBACK"
              /\ up.err[1] = "pg" =>
                    /\ n >= 2
                    /\ up.err = <<"pg", hist.log[n - 1].q>>
                    /\ up.err[2] \in {"BEGIN", "DELETE", "INSERT", "COMMIT"}
              /\ up.pc = "done" =>
                    up.res = [status |-> 500, body |-> <<"error">> \o up.err]
        /\ (up.pc # "idle" /\ up.err = << >> /\ up.file # NoFile) =>
              Issued("ROLLBACK") = << >>
        /\ \A k \in 1 .. n :
              hist.log[k].q = "COMMIT" =>
                 /\ k >= 3
                 /\ hist.log[1].q = "BEGIN" /\ hist.log[2].q = "DELETE"
                 /\ \A j \in 3 .. k - 1 : hist.log[j].q = "INSERT"
                 /\ \A i \in BatchStarts(up.file) :
                       InsertableCount(up.file, i) > 0 =>
                          \E j \in 3 .. k - 1 : hist.log[j].at = i
        /\ hist.swallowed => up.pc = "done" /\ up.err # << >>

\* COMMIT failed, then ROLLBACK failed, and the 500 names COMMIT's error
C10_Witness ==
    /\ up.pc = "done"
    /\ hist.swallowed
    /\ up.err = <<"pg", "COMMIT">>
    /\ up.res = [status |-> 500, body |-> <<"error", "pg", "COMMIT">>]

====
